---- MODULE Spec2Model ----
(***************************************************************************)
(* Model of src/app.py: the pydantic schema of a SousChef recipe           *)
(* (RecipeStep, Ingredient, SousChefRecipe and their validators), the      *)
(* four-node langgraph workflow transform -> critique -> repair/finalize,  *)
(* and the streamlit handler that invokes it.                              *)
(*                                                                         *)
(* A raw mapping (the JSON object the LLM returned) is a function from the *)
(* keys it holds to their values.  Numeric JSON values are tagged records  *)
(* [type, val] so that null and mistyped values can be told from numbers.  *)
(***************************************************************************)
EXTENDS Integers, Sequences, FiniteSets, TLC

VARIABLES
    raw_in,        \* validator run: the mapping as it was handed to model_validate
    raw_obj,       \* validator run: the same mapping object, as it is now
    outcome,       \* validator run: the result of model_validate, once done
    transform_btn, \* streamlit: the button's value in the current script run
    recipe_input,  \* streamlit: the text area's value in the current script run
    pc,            \* the node the graph runs next ("idle" outside agent.invoke)
    state,         \* the AgentState mapping (keys present only once written)
    trace,         \* nodes executed by the current agent.invoke, in order
    gen_calls,     \* structured generation calls made by the current invoke
    last_generated,\* record returned by the latest structured generation call
    approved_at,   \* length of trace at the first critique holding "APPROVED", else 0
    failed,        \* the node that raised in the current invoke, "" if none
    displayed,     \* what column 2 shows: info, warning, success or error
    shown_recipe,  \* the recipe rendered under st.success, NoRecipe otherwise
    last_recipe    \* st.session_state["last_recipe"]

vars == <<raw_in, raw_obj, outcome, transform_btn, recipe_input, pc, state,
          trace, gen_calls, last_generated, approved_at, failed, displayed,
          shown_recipe, last_recipe>>

validatorVars == <<raw_in, raw_obj, outcome>>
appVars == <<transform_btn, recipe_input, pc, state, trace, gen_calls,
             last_generated, approved_at, failed, displayed, shown_recipe,
             last_recipe>>

----------------------------------------------------------------------------
(* JSON values *)

Num(n) == [type |-> "number", val |-> n]
Null == [type |-> "null", val |-> 0]
Text == [type |-> "string", val |-> 0]

IsNumber(x) == x.type = "number"

\* largest number of steps an enumerated raw record carries
MaxSteps == 12

----------------------------------------------------------------------------
(* RecipeStep *)

WorkplaceEnum == {"Stove", "Oven", "Blender", "Cutting board", "Bowl", "Pan"}

WorkplaceMapping ==
    [k \in {"Plate", "Wok", "Pot", "Stock pot", "Stock Pot", "Sink", "Counter",
            "Table", "Grill", "Microwave", "Chopping board", "Chopping Board",
            "Toaster", "Worktop", "Kitchen counter", "Loaf pan", "Loaf Pan"} |->
        CASE k \in {"Plate", "Sink"} -> "Bowl"
          [] k \in {"Wok", "Pot", "Stock pot", "Stock Pot", "Grill", "Toaster"} -> "Stove"
          [] k \in {"Counter", "Table", "Chopping board", "Chopping Board",
                    "Worktop", "Kitchen counter"} -> "Cutting board"
          [] k \in {"Microwave", "Loaf pan", "Loaf Pan"} -> "Oven"]

\* mapping.get(v, v)
fix_workplace_identity(v) == v

fix_workplace(v) ==
    IF v \in DOMAIN WorkplaceMapping THEN WorkplaceMapping[v] ELSE v

StepRequired ==
    {"display_name_en", "display_name_nl", "action_en", "action_nl",
     "instructions_en", "instructions_nl", "workplace", "has_timer",
     "is_first_appearance"}

StepFields == StepRequired \cup {"timer_minutes"}

\* the fields of one raw step that fail validation
StepErrors(s) ==
    {k \in StepRequired : k \notin DOMAIN s}
    \cup {k \in {"workplace"} \cap DOMAIN s : fix_workplace(s[k]) \notin WorkplaceEnum}
    \cup {k \in {"timer_minutes"} \cap DOMAIN s : s[k].type = "string"}

\* the RecipeStep built from a raw step without errors
RecipeStep(s) ==
    [k \in StepFields |->
        CASE k = "workplace" -> fix_workplace(s[k])
          [] k = "timer_minutes" -> IF k \in DOMAIN s THEN s[k] ELSE Null
          [] OTHER -> s[k]]

----------------------------------------------------------------------------
(* Ingredient *)

IngredientRequired == {"name_en", "name_nl"}
IngredientFields == IngredientRequired \cup {"quantity"}

IngredientErrors(g) == {k \in IngredientRequired : k \notin DOMAIN g}

Ingredient(g) ==
    [k \in IngredientFields |->
        IF k = "quantity" /\ k \notin DOMAIN g THEN "to taste" ELSE g[k]]

----------------------------------------------------------------------------
(* SousChefRecipe *)

DifficultyEnum == {"Easy", "Medium", "Intermediate"}

TextFields ==
    {"generic_name_en", "generic_name_nl", "recipe_name_en", "recipe_name_nl",
     "description_en", "description_nl"}
IntFields == {"servings", "prep_time_minutes", "cook_time_minutes"}
NutritionFields == {"calories_per_person", "protein_g", "carbs_g", "fat_g"}
RecipeFields ==
    TextFields \cup IntFields \cup NutritionFields
    \cup {"difficulty", "ingredients", "steps"}
RecipeRequired == RecipeFields \ NutritionFields

\* renames.items(), in the order the dict literal lists them
Renames ==
    << <<"calories_per_serving", "calories_per_person">>,
       <<"protein_g_per_serving", "protein_g">>,
       <<"carbs_g_per_serving", "carbs_g">>,
       <<"fat_g_per_serving", "fat_g">> >>

AliasKeys == {Renames[i][1] : i \in DOMAIN Renames}

\* v[new] = v.pop(old)
PopInto(v, old, new) ==
    [k \in (DOMAIN v \ {old}) \cup {new} |-> IF k = new THEN v[old] ELSE v[k]]

\* a rename that overwrites a canonical key already there
RenameOverwriting(v, old, new) ==
    IF old \in DOMAIN v THEN PopInto(v, old, new) ELSE v

\* one pass of the loop body: if old in v and new not in v
Rename(v, old, new) ==
    IF old \in DOMAIN v /\ new \notin DOMAIN v THEN PopInto(v, old, new) ELSE v

RECURSIVE RenameFrom(_, _)
RenameFrom(v, i) ==
    IF i > Len(Renames) THEN v
    ELSE RenameFrom(Rename(v, Renames[i][1], Renames[i][2]), i + 1)

\* the mapping object after the "before" model validator ran on it
fix_field_names(v) == RenameFrom(v, 1)

DifficultyMapping ==
    [k \in {"Moderate", "Hard", "Advanced", "Beginner", "Simple"} |->
        CASE k = "Moderate" -> "Medium"
          [] k \in {"Hard", "Advanced"} -> "Intermediate"
          [] k \in {"Beginner", "Simple"} -> "Easy"]

fix_difficulty(v) ==
    IF v \in DOMAIN DifficultyMapping THEN DifficultyMapping[v] ELSE v

EasyMaxSteps == 6
MediumMaxSteps == 11

\* the rule with its first threshold off by one
DifficultyForStepsStrict(step_count) ==
    IF step_count < EasyMaxSteps THEN "Easy"
    ELSE IF step_count <= MediumMaxSteps THEN "Medium"
    ELSE "Intermediate"

DifficultyForSteps(step_count) ==
    IF step_count <= EasyMaxSteps THEN "Easy"
    ELSE IF step_count <= MediumMaxSteps THEN "Medium"
    ELSE "Intermediate"

\* the "after" model validator: difficulty is overwritten from len(self.steps)
fix_difficulty_by_steps(self) ==
    [self EXCEPT !.difficulty = DifficultyForSteps(Len(self.steps))]

\* the top-level fields of the (renamed) mapping v that fail validation
FieldErrors(v) ==
    {k \in RecipeRequired : k \notin DOMAIN v}
    \cup {k \in {"difficulty"} \cap DOMAIN v : fix_difficulty(v[k]) \notin DifficultyEnum}
    \cup {k \in IntFields \cap DOMAIN v : ~IsNumber(v[k])}
    \cup {k \in NutritionFields \cap DOMAIN v : v[k].type = "string"}
    \cup {k \in {"ingredients"} \cap DOMAIN v :
            \E i \in DOMAIN v[k] : IngredientErrors(v[k][i]) # {}}
    \cup {k \in {"steps"} \cap DOMAIN v :
            \E i \in DOMAIN v[k] : StepErrors(v[k][i]) # {}}

\* the model built from a mapping without errors, before the "after" validator
BuildRecipe(v) ==
    [k \in RecipeFields |->
        CASE k = "difficulty" -> fix_difficulty(v[k])
          [] k \in IntFields -> v[k].val
          [] k \in NutritionFields -> IF k \in DOMAIN v THEN v[k] ELSE Num(0)
          [] k = "ingredients" -> [i \in DOMAIN v[k] |-> Ingredient(v[k][i])]
          [] k = "steps" -> [i \in DOMAIN v[k] |-> RecipeStep(v[k][i])]
          [] OTHER -> v[k]]

\* SousChefRecipe.model_validate(raw): the "before" validator works on the
\* mapping object itself, so `object` is what the caller's mapping holds
\* afterwards.
SousChefRecipe(raw) ==
    LET v == fix_field_names(raw) IN
    IF FieldErrors(v) = {}
    THEN [done |-> TRUE, ok |-> TRUE, object |-> v,
          model |-> fix_difficulty_by_steps(BuildRecipe(v)), errors |-> {}]
    ELSE [done |-> TRUE, ok |-> FALSE, object |-> v, model |-> <<>>,
          errors |-> FieldErrors(v)]

----------------------------------------------------------------------------
(* The raw records the checks enumerate *)

Absent == [type |-> "absent", val |-> 0]

\* a raw step with every key, at workplace w
RawStep(w) ==
    [k \in StepFields |->
        CASE k = "workplace" -> w
          [] k \in {"has_timer", "is_first_appearance"} -> FALSE
          [] k = "timer_minutes" -> Null
          [] OTHER -> "txt"]

\* n raw steps: the first at workplace `first`, the last at `last`
RawSteps(n, first, last) ==
    [i \in 1..n |->
        IF i = 1 THEN RawStep(first)
        ELSE IF i = n THEN RawStep(last) ELSE RawStep("Cutting board")]

RawIngredients ==
    << [name_en |-> "Onion", name_nl |-> "Ui", quantity |-> "1 piece"],
       [name_en |-> "Salt", name_nl |-> "Zout"] >>

\* the nutrition keys of a raw record: for rename i, the alias key holds a and
\* the canonical key holds c (Absent: the key is not there)
NutritionPair(i, a, c) ==
    [k \in {Renames[i][j] : j \in {j \in 1..2 : <<a, c>>[j] # Absent}} |->
        IF k = Renames[i][1] THEN a ELSE c]

Merge(f, g) == [k \in DOMAIN f \cup DOMAIN g |-> IF k \in DOMAIN f THEN f[k] ELSE g[k]]

RECURSIVE NutritionAll(_, _)
\* opts[i] = <<alias value, canonical value>> for rename i
NutritionAll(opts, i) ==
    IF i > Len(Renames) THEN <<>>
    ELSE IF i = Len(Renames) THEN NutritionPair(i, opts[i][1], opts[i][2])
    ELSE Merge(NutritionPair(i, opts[i][1], opts[i][2]), NutritionAll(opts, i + 1))

AliasValues == {Absent, Num(7), Num(-1)}
CanonicalValues == {Absent, Num(3), Null, Text}

NutritionMaps ==
    {NutritionPair(i, a, c) : i \in DOMAIN Renames, a \in AliasValues, c \in CanonicalValues}
    \cup {NutritionAll(<< <<Num(7), Absent>>, <<Num(8), Absent>>,
                          <<Num(9), Absent>>, <<Num(10), Absent>> >>, 1),
          NutritionAll(<< <<Num(7), Num(3)>>, <<Num(8), Num(4)>>,
                          <<Num(9), Num(5)>>, <<Num(10), Num(6)>> >>, 1),
          NutritionAll(<< <<Num(7), Absent>>, <<Num(8), Num(4)>>,
                          <<Absent, Num(5)>>, <<Num(10), Null>> >>, 1)}

\* <<servings, prep_time_minutes, cook_time_minutes>>
NumericProfiles ==
    { <<Num(4), Num(10), Num(25)>>, <<Num(0), Num(10), Num(25)>>,
      <<Num(4), Num(-1), Num(0)>>, <<Text, Num(10), Num(25)>>,
      <<Absent, Num(10), Num(25)>> }

RawRecord(difficulty, numeric, nutrition, steps) ==
    Merge(nutrition,
          [k \in RecipeRequired \ {IF numeric[1] = Absent THEN "servings" ELSE "none"} |->
            CASE k = "difficulty" -> difficulty
              [] k = "servings" -> numeric[1]
              [] k = "prep_time_minutes" -> numeric[2]
              [] k = "cook_time_minutes" -> numeric[3]
              [] k = "ingredients" -> RawIngredients
              [] k = "steps" -> steps
              [] OTHER -> "txt"])

RawInputs ==
    {RawRecord(d, num, nut, RawSteps(n, first, last)) :
        d \in {"Easy", "Hard", "Expert"}, num \in NumericProfiles,
        nut \in NutritionMaps, n \in 0..MaxSteps,
        first \in {"Stove", "Wok", "Fireplace"}, last \in {"Pan", "Loaf pan"}}

----------------------------------------------------------------------------
(* A run of the validator on one raw mapping *)

Pending == [done |-> FALSE, ok |-> FALSE, object |-> <<>>, model |-> <<>>, errors |-> {}]
NoRecipe == <<>>

AppIdle ==
    /\ transform_btn = FALSE
    /\ recipe_input = ""
    /\ pc = "idle"
    /\ state = <<>>
    /\ trace = <<>>
    /\ gen_calls = 0
    /\ last_generated = NoRecipe
    /\ approved_at = 0
    /\ failed = ""
    /\ displayed = "info"
    /\ shown_recipe = NoRecipe
    /\ last_recipe = NoRecipe

ValidatorInit ==
    /\ raw_in \in RawInputs
    /\ raw_obj = raw_in
    /\ outcome = Pending
    /\ AppIdle

\* result = SousChefRecipe.model_validate(raw_obj)
Validate ==
    /\ ~outcome.done
    /\ outcome' = SousChefRecipe(raw_obj)
    /\ raw_obj' = outcome'.object
    /\ UNCHANGED <<raw_in, appVars>>

ValidatorNext == Validate

ValidatorSpec == ValidatorInit /\ [][ValidatorNext]_vars

----------------------------------------------------------------------------
(* The LLM client: what its calls can return *)

APPROVED == <<"A", "P", "P", "R", "O", "V", "E", "D">>

\* Python's `sub in s` on strings, as sequences of characters
Contains(sub, s) ==
    \E i \in 0..(Len(s) - Len(sub)) : SubSeq(s, i + 1, i + Len(sub)) = sub

\* llm.invoke(prompt).content: free text
CritiqueTexts ==
    { APPROVED,
      <<"O", "K", ".", " ">> \o APPROVED \o <<"!">>,
      <<"N", "O", "T", " ">> \o APPROVED \o <<":", " ", "f", "i", "x">>,
      <<"a", "p", "p", "r", "o", "v", "e", "d">>,
      <<"A", "P", "P", "R", "O", "V", "E">>,
      <<"n", "o", " ", "t", "i", "m", "e", "r">> }

\* structured_llm.invoke(prompt): the JSON object the model wrote, before the
\* output parser validates it against SousChefRecipe
LLMOutputs ==
    {RawRecord(d, <<Num(4), Num(10), Num(25)>>, nut, RawSteps(n, first, "Pan")) :
        d \in {"Easy", "Moderate", "Expert"},
        nut \in {NutritionPair(1, Num(7), Absent), NutritionPair(1, Num(7), Num(3))},
        n \in 0..MaxSteps, first \in {"Wok", "Fireplace"}}

\* what the output parser makes of each of them
ParsedOutputs == {SousChefRecipe(reply) : reply \in LLMOutputs}

----------------------------------------------------------------------------
(* The graph's nodes and routing *)

RepairLimit == 2

\* state.get(key, default)
Get(s, key, default) == IF key \in DOMAIN s THEN s[key] ELSE default

\* langgraph writes a node's returned keys over the state's
Update(s, ret) == Merge(ret, s)

\* routing that allows one repair too many
should_repair_or_finalize_late(s) ==
    LET critique == Get(s, "critique", <<>>)
        attempts == Get(s, "attempts", 0)
    IN  IF Contains(APPROVED, critique) THEN "finalize"
        ELSE IF attempts > RepairLimit THEN "finalize"
        ELSE "repair"

\* routing that approves only a critique that is exactly "APPROVED"
should_repair_or_finalize_exact(s) ==
    LET critique == Get(s, "critique", <<>>)
        attempts == Get(s, "attempts", 0)
    IN  IF critique = APPROVED THEN "finalize"
        ELSE IF attempts >= RepairLimit THEN "finalize"
        ELSE "repair"

should_repair_or_finalize(s) ==
    LET critique == Get(s, "critique", <<>>)
        attempts == Get(s, "attempts", 0)
    IN  IF Contains(APPROVED, critique) THEN "finalize"
        ELSE IF attempts >= RepairLimit THEN "finalize"
        ELSE "repair"

\* what each node returns
transform_return(recipe) == [parsed_recipe |-> recipe, attempts |-> 0]
critique_return(content) == [critique |-> content]
repair_return_same_attempts(s, fixed) ==
    [parsed_recipe |-> fixed, attempts |-> Get(s, "attempts", 0)]
repair_return(s, fixed) ==
    [parsed_recipe |-> fixed, attempts |-> Get(s, "attempts", 0) + 1]
finalize_return(s) == [final_recipe |-> s["parsed_recipe"]]

\* an exception leaves agent.invoke and reaches the handler's except clause:
\* st.error(f"Error: {str(e)}")
\* a handler that falls back on the last valid candidate
RaiseShowingCandidate(node) ==
    /\ trace' = Append(trace, node)
    /\ failed' = node
    /\ pc' = "idle"
    /\ displayed' = "error"
    /\ shown_recipe' = last_generated
    /\ UNCHANGED <<state, last_generated, approved_at, last_recipe, transform_btn,
                   recipe_input>>

Raise(node) ==
    /\ trace' = Append(trace, node)
    /\ failed' = node
    /\ pc' = "idle"
    /\ displayed' = "error"
    /\ shown_recipe' = NoRecipe
    /\ UNCHANGED <<state, last_generated, approved_at, last_recipe, transform_btn,
                   recipe_input>>

transform_node ==
    /\ pc = "transform"
    /\ gen_calls' = gen_calls + 1
    /\ \/ \E r \in ParsedOutputs :
            /\ r.ok
            /\ state' = Update(state, transform_return(r.model))
            /\ last_generated' = r.model
            /\ trace' = Append(trace, "transform")
            /\ pc' = "critique"
            /\ UNCHANGED <<approved_at, failed, displayed, shown_recipe, last_recipe,
                           transform_btn, recipe_input>>
       \/ /\ \E r \in ParsedOutputs : ~r.ok  \* schema-validation failure
          /\ Raise("transform")
       \/ Raise("transform")  \* provider error
    /\ UNCHANGED validatorVars

critique_node ==
    /\ pc = "critique"
    /\ \/ \E content \in CritiqueTexts :
            /\ state' = Update(state, critique_return(content))
            /\ trace' = Append(trace, "critique")
            /\ pc' = should_repair_or_finalize(state')
            /\ approved_at' =
                    IF approved_at = 0 /\ Contains(APPROVED, content)
                    THEN Len(trace') ELSE approved_at
            /\ UNCHANGED <<last_generated, failed, displayed, shown_recipe, last_recipe,
                           transform_btn, recipe_input>>
       \/ Raise("critique")  \* provider error
    /\ UNCHANGED <<gen_calls, validatorVars>>

repair_node ==
    /\ pc = "repair"
    /\ gen_calls' = gen_calls + 1
    /\ \/ \E r \in ParsedOutputs :
            /\ r.ok
            /\ state' = Update(state, repair_return(state, r.model))
            /\ last_generated' = r.model
            /\ trace' = Append(trace, "repair")
            /\ pc' = "critique"
            /\ UNCHANGED <<approved_at, failed, displayed, shown_recipe, last_recipe,
                           transform_btn, recipe_input>>
       \/ /\ \E r \in ParsedOutputs : ~r.ok  \* schema-validation failure
          /\ Raise("repair")
       \/ Raise("repair")  \* provider error
    /\ UNCHANGED validatorVars

finalize_node ==
    /\ pc = "finalize"
    /\ state' = Update(state, finalize_return(state))
    /\ trace' = Append(trace, "finalize")
    /\ pc' = "END"
    /\ UNCHANGED <<gen_calls, last_generated, approved_at, failed, displayed,
                   shown_recipe, last_recipe, transform_btn, recipe_input, validatorVars>>

----------------------------------------------------------------------------
(* The streamlit script *)

RecipeTexts == {"", "Spaghetti Carbonara"}

\* the handler's first test without the check of the text
InvokesOnButtonAlone(btn, input) == btn

\* if transform_btn and recipe_input
Invokes(btn, input) == btn /\ input # ""

\* one run of the script up to agent.invoke, or to its end when the loop is
\* not entered
Submit ==
    /\ pc = "idle"
    /\ \E btn \in BOOLEAN, input \in RecipeTexts :
        /\ transform_btn' = btn
        /\ recipe_input' = input
        /\ trace' = <<>>
        /\ gen_calls' = 0
        /\ last_generated' = NoRecipe
        /\ approved_at' = 0
        /\ failed' = ""
        /\ shown_recipe' = NoRecipe
        /\ IF Invokes(btn, input)
           THEN /\ state' = [raw_recipe |-> input]
                /\ pc' = "transform"
                /\ displayed' = "spinner"
           ELSE /\ state' = <<>>
                /\ pc' = "idle"
                /\ displayed' = IF btn /\ input = "" THEN "warning" ELSE "info"
    /\ UNCHANGED <<last_recipe, validatorVars>>

\* agent.invoke returned: recipe = result["final_recipe"] and the rendering
Render ==
    /\ pc = "END"
    /\ pc' = "idle"
    /\ IF "final_recipe" \in DOMAIN state
       THEN /\ last_recipe' = state["final_recipe"]
            /\ displayed' = "success"
            /\ shown_recipe' = state["final_recipe"]
       ELSE /\ displayed' = "error"
            /\ UNCHANGED <<last_recipe, shown_recipe>>
    /\ UNCHANGED <<state, trace, gen_calls, last_generated, approved_at, failed,
                   transform_btn, recipe_input, validatorVars>>

Init ==
    /\ raw_in = <<>>
    /\ raw_obj = <<>>
    /\ outcome = Pending
    /\ AppIdle

Next ==
    \/ Submit
    \/ transform_node
    \/ critique_node
    \/ repair_node
    \/ finalize_node
    \/ Render

Spec == Init /\ [][Next]_vars

----------------------------------------------------------------------------
(* Properties *)

Last(seq) == seq[Len(seq)]
Count(seq, x) == Cardinality({i \in DOMAIN seq : seq[i] = x})
Finalized == "final_recipe" \in DOMAIN state

\* C1: the repair node runs at most 2 times in an invocation; when no critique
\* held "APPROVED" and no call failed, the critique after the second repair
\* routes to finalize, and a finalized run then made exactly 2 repairs and 3
\* structured generation calls and its final_recipe is the record the second
\* repair returned.
C1_AtMostTwoRepairs ==
    /\ Count(trace, "repair") <= 2
    /\ (approved_at = 0 /\ failed = "" /\ Count(trace, "repair") = 2
            /\ Last(trace) = "critique")
        => pc = "finalize"
    /\ (approved_at = 0 /\ Finalized)
        => /\ trace = <<"transform", "critique", "repair", "critique", "repair",
                        "critique", "finalize">>
           /\ gen_calls = 3
           /\ state["attempts"] = 2
           /\ state["final_recipe"] = last_generated

C1_Witness ==
    /\ approved_at = 0
    /\ Finalized
    /\ displayed = "success"
    /\ Count(trace, "repair") = 2

\* C2: once a critique holds "APPROVED" as a substring, whatever else it says
\* and whatever the attempt count, the route is finalize and the only node
\* that runs afterwards is finalize, on the candidate that was critiqued; an
\* approving first critique finalizes the transform's record with 0 repairs.
C2_ApprovedFinalizes ==
    approved_at > 0 =>
        /\ trace[approved_at] = "critique"
        /\ pc \in {"finalize", "END", "idle"}
        /\ failed = ""
        /\ \A i \in (approved_at + 1)..Len(trace) : trace[i] = "finalize"
        /\ Count(trace, "repair") = state["attempts"]
        /\ Len(trace) <= approved_at + 1
        /\ Finalized => state["final_recipe"] = last_generated
        /\ approved_at = 2 => Count(trace, "repair") = 0 /\ gen_calls = 1

C2_Witness ==
    /\ approved_at = 2
    /\ Len(state["critique"]) > Len(APPROVED)
    /\ Finalized
    /\ displayed = "success"
    /\ shown_recipe = last_generated

\* C3: when transform, critique or repair raises, the invocation ends there:
\* the failing node is the last one that ran and ran once, finalize never
\* runs, no final_recipe exists, and the page shows the error and no recipe,
\* even though a valid candidate may exist.
C3_FailureEndsInvocation ==
    /\ (failed # "") <=> (displayed = "error")
    /\ failed # "" =>
        /\ failed \in {"transform", "critique", "repair"}
        /\ pc = "idle"
        /\ Last(trace) = failed
        /\ Count(trace, "finalize") = 0
        /\ ~Finalized
        /\ shown_recipe = NoRecipe
        /\ Count(trace, "transform") = 1
        /\ gen_calls = Count(trace, "transform") + Count(trace, "repair")
        /\ Count(trace, "repair") <= 2

C3_Witness ==
    /\ failed = "repair"
    /\ last_generated # NoRecipe
    /\ displayed = "error"
    /\ shown_recipe = NoRecipe

\* the difficulty the step-count rule gives
DifficultyRuleHolds(recipe) ==
    /\ Len(recipe["steps"]) <= 6 => recipe["difficulty"] = "Easy"
    /\ Len(recipe["steps"]) \in 7..11 => recipe["difficulty"] = "Medium"
    /\ Len(recipe["steps"]) >= 12 => recipe["difficulty"] = "Intermediate"

\* C4: every finalized recipe (in the state, rendered, or kept in the session)
\* has the difficulty its number of steps gives: <= 6 Easy, 7..11 Medium,
\* >= 12 Intermediate, whatever the LLM wrote.
C4_DifficultyFromStepCount ==
    /\ Finalized => DifficultyRuleHolds(state["final_recipe"])
    /\ shown_recipe # NoRecipe => DifficultyRuleHolds(shown_recipe)
    /\ last_recipe # NoRecipe => DifficultyRuleHolds(last_recipe)

\* no LLM output says "Intermediate" or a synonym of it, so this one was set
\* from the step count, in a repair
C4_Witness ==
    /\ Finalized
    /\ Count(trace, "repair") > 0
    /\ Len(state["final_recipe"]["steps"]) = 12
    /\ state["final_recipe"]["difficulty"] = "Intermediate"

RawWorkplace(i) == raw_in["steps"][i]["workplace"]
Mappable(w) == w \in WorkplaceEnum \cup DOMAIN WorkplaceMapping

\* C5: step by step, a workplace that is a key of the synonym table comes out
\* as the table's target and one of the enum comes out as it is, and such
\* steps raise no error; a workplace in neither makes the record fail, on its
\* steps.
C5_WorkplaceSynonyms ==
    outcome.done =>
        /\ \A i \in DOMAIN raw_in["steps"] :
            /\ (outcome.ok /\ RawWorkplace(i) \in DOMAIN WorkplaceMapping)
                => outcome.model["steps"][i]["workplace"] = WorkplaceMapping[RawWorkplace(i)]
            /\ (outcome.ok /\ RawWorkplace(i) \in WorkplaceEnum)
                => outcome.model["steps"][i]["workplace"] = RawWorkplace(i)
            /\ ~Mappable(RawWorkplace(i)) => ~outcome.ok /\ "steps" \in outcome.errors
            /\ outcome.ok => outcome.model["steps"][i]["workplace"] \in WorkplaceEnum
        /\ (\A i \in DOMAIN raw_in["steps"] : Mappable(RawWorkplace(i)))
            => "steps" \notin outcome.errors

C5_Witness ==
    /\ outcome.done
    /\ outcome.ok
    /\ Len(raw_in["steps"]) >= 2
    /\ RawWorkplace(1) = "Wok"
    /\ outcome.model["steps"][1]["workplace"] = "Stove"
    /\ RawWorkplace(Len(raw_in["steps"])) = "Loaf pan"
    /\ outcome.model["steps"][Len(raw_in["steps"])]["workplace"] = "Oven"

\* C6: in a validated record, for each alias pair, the canonical field holds
\* the alias's value when the raw record had only the alias key, and the value
\* given under the canonical key when it had both.
C6_AliasRenames ==
    (outcome.done /\ outcome.ok) =>
        \A i \in DOMAIN Renames :
            LET old == Renames[i][1]
                new == Renames[i][2]
            IN  /\ (old \in DOMAIN raw_in /\ new \notin DOMAIN raw_in)
                    => outcome.model[new] = raw_in[old]
                /\ new \in DOMAIN raw_in => outcome.model[new] = raw_in[new]

C6_Witness ==
    /\ outcome.done
    /\ outcome.ok
    /\ "calories_per_serving" \in DOMAIN raw_in
    /\ "calories_per_person" \notin DOMAIN raw_in
    /\ outcome.model["calories_per_person"] = Num(7)
    /\ "protein_g_per_serving" \in DOMAIN raw_in
    /\ "protein_g" \in DOMAIN raw_in
    /\ raw_in["protein_g_per_serving"] # raw_in["protein_g"]
    /\ outcome.model["protein_g"] = raw_in["protein_g"]

\* C7: a click with an empty text never enters the loop: no node runs, no LLM
\* call is made, and the page shows the warning.
C7_EmptyInputNeverInvokes ==
    (transform_btn /\ recipe_input = "") =>
        /\ pc = "idle"
        /\ trace = <<>>
        /\ gen_calls = 0
        /\ DOMAIN state = {}
        /\ displayed = "warning"
        /\ shown_recipe = NoRecipe

C7_Witness ==
    /\ transform_btn
    /\ recipe_input = ""
    /\ displayed = "warning"
    /\ last_recipe # NoRecipe

\* C8: every record the validator accepts has servings > 0, prep and cook
\* times >= 0 and calories, protein, carbs and fat >= 0.
C8_NumericInvariants ==
    (outcome.done /\ outcome.ok) =>
        /\ outcome.model["servings"] > 0
        /\ outcome.model["prep_time_minutes"] >= 0
        /\ outcome.model["cook_time_minutes"] >= 0
        /\ \A k \in NutritionFields :
            IsNumber(outcome.model[k]) => outcome.model[k].val >= 0

\* C9: validation leaves the raw mapping it was given with the keys and values
\* it had.
C9_RawMappingUntouched ==
    outcome.done => raw_obj = raw_in

\* C10: a run that has not failed has executed transform once and first, then
\* critique, then (repair, critique) pairs, then finalize once and last, right
\* after a critique; attempts is 0 after transform and grows by 1 per repair;
\* final_recipe is unset until finalize and is then the current candidate.
C10_NodeSequence ==
    failed = "" =>
        /\ \A i \in DOMAIN trace :
            /\ trace[i] = "transform" <=> i = 1
            /\ trace[i] = "critique" => trace[i - 1] \in {"transform", "repair"}
            /\ trace[i] = "repair" => trace[i - 1] = "critique"
            /\ trace[i] = "finalize" => trace[i - 1] = "critique" /\ i = Len(trace)
        /\ pc = "transform" <=> (trace = <<>> /\ "raw_recipe" \in DOMAIN state)
        /\ pc = "critique" <=> (trace # <<>> /\ Last(trace) \in {"transform", "repair"})
        /\ pc \in {"repair", "finalize"} => Last(trace) = "critique"
        /\ pc = "END" => Last(trace) = "finalize"
        /\ (pc = "idle" /\ trace # <<>>) => Last(trace) = "finalize"
        /\ trace # <<>> => state["attempts"] = Count(trace, "repair")
        /\ Finalized <=> Count(trace, "finalize") = 1
        /\ Finalized => state["final_recipe"] = state["parsed_recipe"]
        /\ gen_calls = Count(trace, "transform") + Count(trace, "repair")

C10_Witness ==
    /\ failed = ""
    /\ trace = <<"transform", "critique", "repair", "critique", "finalize">>
    /\ state["attempts"] = 1
    /\ state["final_recipe"] = state["parsed_recipe"]

====
